---- MODULE Spec2Model ----
(***************************************************************************)
(* Model of bdn::ui::Window (Window.cpp) and of bdn::UiLength              *)
(* (UiLength.h).                                                           *)
(*                                                                         *)
(* Window: the properties of the Window, the properties of its             *)
(* Window::Core, the bindings bindViewCore establishes between them, and   *)
(* the child-view operations.  UiLength: construction and comparison.      *)
(***************************************************************************)
EXTENDS Integers, Sequences, FiniteSets, TLC

(* ------------------------------ bounds -------------------------------- *)

\* Number of distinct View objects that can be handed to the Window.
MaxViews == 2

\* Largest magnitude of a finite UiLength value in the model.
MaxValue == 1

(* ------------------------------ domains ------------------------------- *)

\* nullptr of std::shared_ptr<View>
Null == 0

Views == 1 .. MaxViews

ViewPtrs == {Null} \cup Views

Titles == {"", "t"}

Orientations == {"Portrait", "LandscapeLeft", "All"}

Rects == {"r0", "r1"}

\* The properties of the Window (own ones and those inherited from View
\* that the constructor names).
WindowProps ==
    {"contentView", "title", "visible", "allowedOrientations",
     "currentOrientation", "internalContentGeometry", "geometry",
     "contentGeometry"}

\* The properties of Window::Core that bindViewCore binds.
CoreProps ==
    {"contentView", "title", "allowedOrientations", "currentOrientation",
     "contentGeometry"}

\* The values a property can hold.
Domain(p) ==
    CASE p = "contentView" -> ViewPtrs
      [] p = "title" -> Titles
      [] p = "visible" -> BOOLEAN
      [] p \in {"allowedOrientations", "currentOrientation"} -> Orientations
      [] OTHER -> Rects

\* The Window property a core property is bound to in bindViewCore.
SourceOf(cp) ==
    IF cp = "contentGeometry" THEN "internalContentGeometry" ELSE cp

\* The properties whose change creates the core.
CoreCreatingProps == {"visible", "contentView", "geometry", "contentGeometry"}

BindModes == {"none", "bidirectional", "unidirectional"}

(* ------------------------------- state -------------------------------- *)

VARIABLES
    window,        \* the Window's properties
    windowCore,    \* the Window::Core's properties
    binding,       \* per core property: how it is bound to the Window
    coreCreated,   \* whether the core exists
    _contentView,  \* the child the SingleChildHelper currently holds
    aborted,       \* an assert() has failed and terminated the program
    lastOp,        \* the last call: name, argument, calling thread
    result,        \* what the last call returned
    a, b,          \* two UiLength objects
    ctorA,         \* the constructor that made a
    eq, neq        \* results of a == b and a != b

windowVars ==
    <<window, windowCore, binding, coreCreated, _contentView, aborted,
      lastOp, result>>

lengthVars == <<a, b, ctorA, eq, neq>>

vars == <<windowVars, lengthVars>>

(* -------------------------- property wiring --------------------------- *)

\* The Window side of the program as one value, so that the property
\* operations can be written as functions from state to state.
Sys ==
    [w |-> window, c |-> windowCore, b |-> binding, created |-> coreCreated,
     child |-> _contentView]

\* Property::bind: the core property takes the value of the Window property
\* it is bound to and is kept in sync with it from then on.
Bind(s, cp, mode) ==
    [s EXCEPT !.c[cp] = s.w[SourceOf(cp)], !.b[cp] = mode]

\* bindViewCore with the two orientation bindings made unidirectional.
BindViewCoreUnidirectional(s) ==
    LET s1 == Bind(s, "contentView", "bidirectional")
        s2 == Bind(s1, "title", "bidirectional")
        s3 == Bind(s2, "allowedOrientations", "unidirectional")
        s4 == Bind(s3, "currentOrientation", "unidirectional")
    IN  Bind(s4, "contentGeometry", "bidirectional")

\* Window::bindViewCore.  View::bindViewCore binds properties of the View
\* base class only, none of which belongs to Window::Core.
BindViewCore(s) ==
    LET s1 == Bind(s, "contentView", "bidirectional")
        s2 == Bind(s1, "title", "bidirectional")
        s3 == Bind(s2, "allowedOrientations", "bidirectional")
        s4 == Bind(s3, "currentOrientation", "bidirectional")
    IN  Bind(s4, "contentGeometry", "bidirectional")

\* Creation of the core, which ends with bindViewCore.
LazyInitCore(s) ==
    IF s.created THEN s ELSE BindViewCore([s EXCEPT !.created = TRUE])

\* _contentView.update(shared_from_this(), view): the helper holds the new
\* child.
SingleChildUpdate(s, view) == [s EXCEPT !.child = view]

\* The subscribers of a Window property's onChange, in the order they were
\* added: core creation (constructor), _contentView.update (constructor),
\* the binding to the core (bindViewCore).
NotifyWindow(s, p) ==
    LET v  == s.w[p]
        s1 == IF p \in CoreCreatingProps THEN LazyInitCore(s) ELSE s
        s2 == IF p = "contentView" THEN SingleChildUpdate(s1, v) ELSE s1
    IN  [s2 EXCEPT !.c =
            [cp \in CoreProps |->
                IF SourceOf(cp) = p /\ s2.b[cp] # "none" THEN v ELSE @[cp]]]

\* Assignment to a Window property: a changed value is stored and the
\* subscribers are notified; an equal value changes nothing.
WindowAssign(s, p, v) ==
    IF s.w[p] = v THEN s ELSE NotifyWindow([s EXCEPT !.w[p] = v], p)

\* Assignment to a core property: a changed value is stored and, over a
\* bidirectional binding, assigned to the Window property.
CoreAssign(s, cp, v) ==
    IF s.c[cp] = v
    THEN s
    ELSE LET s1 == [s EXCEPT !.c[cp] = v]
         IN  IF s.b[cp] = "bidirectional"
             THEN WindowAssign(s1, SourceOf(cp), v)
             ELSE s1

\* The next state of the Window side is s.
Commit(s) ==
    /\ window' = s.w
    /\ windowCore' = s.c
    /\ binding' = s.b
    /\ coreCreated' = s.created
    /\ _contentView' = s.child

Call(op, arg, onMain) ==
    [op |-> op, arg |-> arg, onMain |-> onMain, old |-> window.contentView]

NoResult == <<>>

(* --------------------------- Window: Init ----------------------------- *)

\* The values the properties of a platform core hold when it is created.
CoreInits ==
    { [contentView |-> Null, title |-> "", allowedOrientations |-> "All",
       currentOrientation |-> "Portrait", contentGeometry |-> "r0"],
      [contentView |-> Null, title |-> "t",
       allowedOrientations |-> "Portrait",
       currentOrientation |-> "LandscapeLeft", contentGeometry |-> "r1"] }

\* The Window after its constructor.
WindowInit ==
    /\ \E o \in Orientations :
          window = [contentView |-> Null, title |-> "", visible |-> FALSE,
                    allowedOrientations |-> "All", currentOrientation |-> o,
                    internalContentGeometry |-> "r0", geometry |-> "r0",
                    contentGeometry |-> "r0"]
    /\ windowCore \in CoreInits
    /\ binding = [cp \in CoreProps |-> "none"]
    /\ coreCreated = FALSE
    /\ _contentView = Null
    /\ aborted = FALSE
    /\ lastOp = [op |-> "Window", arg |-> Null, onMain |-> TRUE, old |-> Null]
    /\ result = NoResult

(* -------------------------- Window: actions --------------------------- *)

\* The list childViews returns for a Window whose contentView is cv, with
\* the null pointer listed as well.
ChildViewListWithNull(cv) == <<cv>>

\* The list childViews returns for a Window whose contentView is cv.
ChildViewList(cv) == IF cv # Null THEN <<cv>> ELSE <<>>

\* Window::childViews()
ChildViews(onMain) ==
    /\ ~aborted
    /\ lastOp' = Call("childViews", Null, onMain)
    /\ UNCHANGED lengthVars
    /\ IF ~onMain
       THEN /\ aborted' = TRUE
            /\ UNCHANGED <<window, windowCore, binding, coreCreated,
                           _contentView, result>>
       ELSE /\ result' = ChildViewList(window.contentView)
            /\ UNCHANGED <<window, windowCore, binding, coreCreated,
                           _contentView, aborted>>

\* removeAllChildViews that forgets to clear the content view.
RemoveAllChildViewsKeep(s) == s

\* The body of Window::removeAllChildViews().
RemoveAllChildViewsBody(s) == WindowAssign(s, "contentView", Null)

\* Window::removeAllChildViews(): no check of the calling thread.
RemoveAllChildViews(onMain) ==
    /\ ~aborted
    /\ lastOp' = Call("removeAllChildViews", Null, onMain)
    /\ Commit(RemoveAllChildViewsBody(Sys))
    /\ result' = NoResult
    /\ UNCHANGED aborted
    /\ UNCHANGED lengthVars

\* childViewStolen that clears the content view whatever view was stolen.
ChildViewStolenAlways(s, childView) == WindowAssign(s, "contentView", Null)

\* The body of Window::childViewStolen(childView) after the assertion.
ChildViewStolenBody(s, childView) ==
    IF childView = s.w.contentView
    THEN WindowAssign(s, "contentView", Null)
    ELSE s

\* Window::childViewStolen(childView)
ChildViewStolen(childView, onMain) ==
    /\ ~aborted
    /\ lastOp' = Call("childViewStolen", childView, onMain)
    /\ UNCHANGED lengthVars
    /\ result' = NoResult
    /\ IF ~onMain
       THEN /\ aborted' = TRUE
            /\ UNCHANGED <<window, windowCore, binding, coreCreated,
                           _contentView>>
       ELSE /\ Commit(ChildViewStolenBody(Sys, childView))
            /\ UNCHANGED aborted

\* The framework creates the core and calls Window::bindViewCore().
CreateCore ==
    /\ ~aborted
    /\ ~coreCreated
    /\ lastOp' = Call("bindViewCore", Null, TRUE)
    /\ Commit(LazyInitCore(Sys))
    /\ result' = NoResult
    /\ UNCHANGED aborted
    /\ UNCHANGED lengthVars

\* The application assigns a value to a property of the Window.
SetWindowProperty(p, v) ==
    /\ ~aborted
    /\ lastOp' = Call("assign", Null, TRUE)
    /\ Commit(WindowAssign(Sys, p, v))
    /\ result' = NoResult
    /\ UNCHANGED aborted
    /\ UNCHANGED lengthVars

\* The platform core assigns a value to one of its properties.
SetCoreProperty(cp, v) ==
    /\ ~aborted
    /\ coreCreated
    /\ lastOp' = Call("coreAssign", Null, TRUE)
    /\ Commit(CoreAssign(Sys, cp, v))
    /\ result' = NoResult
    /\ UNCHANGED aborted
    /\ UNCHANGED lengthVars

WindowNext ==
    \/ \E onMain \in BOOLEAN : ChildViews(onMain)
    \/ \E onMain \in BOOLEAN : RemoveAllChildViews(onMain)
    \/ \E childView \in ViewPtrs, onMain \in BOOLEAN :
          ChildViewStolen(childView, onMain)
    \/ CreateCore
    \/ \E p \in WindowProps : \E v \in Domain(p) : SetWindowProperty(p, v)
    \/ \E cp \in CoreProps : \E v \in Domain(cp) : SetCoreProperty(cp, v)

(* ------------------------------ UiLength ------------------------------ *)

\* enum UiLength::Unit
Units == {"sem", "realPixel", "pixel96"}

\* The values of a double in the model: the finite values -MaxValue ..
\* MaxValue with the two zeros kept apart, and a NaN.
NaN == <<"nan", 0>>

NegZero == <<"negzero", 0>>

Zero == <<"num", 0>>

Doubles == {NaN, NegZero} \cup {<<"num", n>> : n \in -MaxValue .. MaxValue}

\* The built-in == of double: a NaN equals nothing, the two zeros are equal.
DoubleEq(x, y) == x[1] # "nan" /\ y[1] # "nan" /\ x[2] = y[2]

\* UiLength()
UiLengthDefault == [unit |-> "sem", value |-> Zero]

\* UiLength(Unit unit, double value)
UiLengthOf(unit, value) == [unit |-> unit, value |-> value]

UiLengths == {UiLengthOf(u, v) : u \in Units, v \in Doubles}

\* An operator== that compares the values only.
OperatorEqValueOnly(x, o) == DoubleEq(x.value, o.value)

\* UiLength::operator==
OperatorEq(x, o) == x.unit = o.unit /\ DoubleEq(x.value, o.value)

\* UiLength::operator!=
OperatorNeq(x, o) == ~OperatorEq(x, o)

NotCompared == [valid |-> FALSE, value |-> FALSE]

Compared(v) == [valid |-> TRUE, value |-> v]

\* Two default-constructed UiLength objects, not yet compared.
LengthInit ==
    /\ a = UiLengthDefault
    /\ ctorA = "default"
    /\ b = UiLengthDefault
    /\ eq = NotCompared
    /\ neq = NotCompared

\* Two UiLength objects made by either constructor, not yet compared.
LengthInitAny ==
    /\ \/ a = UiLengthDefault /\ ctorA = "default"
       \/ a \in UiLengths /\ ctorA = "explicit"
    /\ b \in UiLengths
    /\ eq = NotCompared
    /\ neq = NotCompared

\* a = UiLength()
ConstructDefaultA ==
    /\ a' = UiLengthDefault
    /\ ctorA' = "default"
    /\ eq' = NotCompared
    /\ neq' = NotCompared
    /\ UNCHANGED <<b, windowVars>>

\* a = UiLength(unit, value)
ConstructA(unit, value) ==
    /\ a' = UiLengthOf(unit, value)
    /\ ctorA' = "explicit"
    /\ eq' = NotCompared
    /\ neq' = NotCompared
    /\ UNCHANGED <<b, windowVars>>

\* b = UiLength(unit, value)
ConstructB(unit, value) ==
    /\ b' = UiLengthOf(unit, value)
    /\ eq' = NotCompared
    /\ neq' = NotCompared
    /\ UNCHANGED <<a, ctorA, windowVars>>

\* eq = (a == b)
CompareEq ==
    /\ eq' = Compared(OperatorEq(a, b))
    /\ UNCHANGED <<a, b, ctorA, neq, windowVars>>

\* neq = (a != b)
CompareNeq ==
    /\ neq' = Compared(OperatorNeq(a, b))
    /\ UNCHANGED <<a, b, ctorA, eq, windowVars>>

LengthNext ==
    \/ ConstructDefaultA
    \/ \E unit \in Units, value \in Doubles : ConstructA(unit, value)
    \/ \E unit \in Units, value \in Doubles : ConstructB(unit, value)
    \/ CompareEq
    \/ CompareNeq

(* --------------------------- specifications --------------------------- *)

Init == WindowInit /\ LengthInit

InitUiLength == WindowInit /\ LengthInitAny

Next == WindowNext

\* The Window and its core.
Spec == Init /\ [][Next]_vars

\* UiLength objects, beside a Window that is left alone.
SpecUiLength == InitUiLength /\ [][LengthNext]_vars

(* ------------------------------- claims ------------------------------- *)

WindowOps == {"childViews", "removeAllChildViews", "childViewStolen"}

\* C1: once bindViewCore has run, every binding it establishes keeps both
\* ends equal, whatever is assigned on the Window side or on the core side:
\* contentView, title, allowedOrientations and currentOrientation of the
\* Window equal those of the core, and internalContentGeometry equals the
\* core's contentGeometry.
BindingsInSync ==
    coreCreated =>
        /\ window.contentView = windowCore.contentView
        /\ window.title = windowCore.title
        /\ window.allowedOrientations = windowCore.allowedOrientations
        /\ window.currentOrientation = windowCore.currentOrientation
        /\ window.internalContentGeometry = windowCore.contentGeometry

\* The core has just assigned one of its properties, after values other
\* than the constructor's were given to all five bound pairs.
BindingsInSyncWitness ==
    /\ coreCreated
    /\ lastOp.op = "coreAssign"
    /\ window.contentView # Null
    /\ window.title = "t"
    /\ window.allowedOrientations = "Portrait"
    /\ window.currentOrientation = "LandscapeLeft"
    /\ window.internalContentGeometry = "r1"

\* C2: childViews, removeAllChildViews and childViewStolen are guarded to
\* run on the main thread: a call of one of them from another thread trips
\* an assertion before it reads or changes contentView.
MainThreadGuarded ==
    (lastOp.op \in WindowOps /\ ~lastOp.onMain) => aborted

\* C3: a == b holds exactly when the units are equal and the values compare
\* equal, so lengths of different units are never equal; a != b is the
\* negation of a == b; a default-constructed UiLength equals
\* UiLength(sem, 0).
UiLengthEquality ==
    /\ eq.valid =>
          eq.value = (a.unit = b.unit /\ DoubleEq(a.value, b.value))
    /\ (eq.valid /\ a.unit # b.unit) => ~eq.value
    /\ neq.valid =>
          neq.value = ~(a.unit = b.unit /\ DoubleEq(a.value, b.value))
    /\ (eq.valid /\ neq.valid) => (neq.value = ~eq.value)
    /\ (eq.valid /\ ctorA = "default" /\ b.unit = "sem" /\ b.value = Zero)
          => eq.value

\* Two lengths of value 0 and different units were compared both ways.
UiLengthEqualityWitness ==
    /\ eq.valid
    /\ neq.valid
    /\ a.unit # b.unit
    /\ a.value = Zero
    /\ b.value = Zero
    /\ ~eq.value
    /\ neq.value

\* C4: childViews() returns a list of at most one element, the contentView
\* when it is not null and the empty list when it is, and changes no
\* property of the Window.
ChildViewsReturnsContentView ==
    [][(lastOp'.op = "childViews" /\ ~aborted') =>
          /\ Len(result') <= 1
          /\ window.contentView # Null => result' = <<window.contentView>>
          /\ window.contentView = Null => result' = <<>>
          /\ window' = window]_vars

\* childViews() has returned the one-element list of the contentView.
ChildViewsWitness ==
    /\ lastOp.op = "childViews"
    /\ ~aborted
    /\ window.contentView # Null
    /\ result = <<window.contentView>>

\* C5: childViewStolen(v) sets contentView to null if and only if v is the
\* current contentView and leaves it unchanged for any other v; title,
\* visible, allowedOrientations and currentOrientation are unchanged.
ChildViewStolenEffect ==
    [][(lastOp'.op = "childViewStolen" /\ ~aborted') =>
          /\ lastOp'.arg = window.contentView => window'.contentView = Null
          /\ lastOp'.arg # window.contentView =>
                window'.contentView = window.contentView
          /\ window'.title = window.title
          /\ window'.visible = window.visible
          /\ window'.allowedOrientations = window.allowedOrientations
          /\ window'.currentOrientation = window.currentOrientation]_vars

\* The contentView was stolen from a Window with a title.
ChildViewStolenWitness ==
    /\ lastOp.op = "childViewStolen"
    /\ ~aborted
    /\ lastOp.old # Null
    /\ lastOp.arg = lastOp.old
    /\ window.contentView = Null
    /\ window.title = "t"

\* C6: removeAllChildViews() leaves contentView null whatever the state
\* was, a childViews() right after it returns the empty list, and a second
\* removeAllChildViews() right after it changes nothing.
RemoveAllChildViewsEffect ==
    [][/\ lastOp'.op = "removeAllChildViews" => window'.contentView = Null
       /\ (lastOp.op = "removeAllChildViews" /\ lastOp'.op = "childViews"
              /\ ~aborted') => result' = <<>>
       /\ (lastOp.op = "removeAllChildViews"
              /\ lastOp'.op = "removeAllChildViews") =>
             UNCHANGED <<window, windowCore, binding, coreCreated,
                         _contentView>>]_vars

\* removeAllChildViews() has removed a contentView.
RemoveAllChildViewsWitness ==
    /\ lastOp.op = "removeAllChildViews"
    /\ lastOp.old # Null
    /\ window.contentView = Null

====
